---- MODULE Spec2Model ----
(***************************************************************************)
(* Model of logpull-logs.py (src/.opencode/skill/cloudflare-logpull):      *)
(* one run of main() as a sequential state machine, and its pure helpers   *)
(* parse_duration, parse_iso, format_time, get_value and parse_records.    *)
(*                                                                         *)
(* Text is modelled as a sequence of one-character strings.  A response    *)
(* body is modelled one level up, as a sequence of lexical tokens: the     *)
(* JSON punctuation "[", "]", ",", the white space "\n" and " ", a bare    *)
(* scalar, a piece of non-JSON text, and an object literal written on one  *)
(* line, which carries the mapping json.loads makes of it.                 *)
(* Optional[T] is modelled as a set: {} is None, {x} is the value x.       *)
(***************************************************************************)
EXTENDS Integers, Sequences, FiniteSets, TLC

VARIABLES argv, env, server, pc, args, start_time, end_time, params,
          requests, payload, records, parseCalls, idx, output_count,
          stdout, stderr, exit

vars == <<argv, env, server, pc, args, start_time, end_time, params,
          requests, payload, records, parseCalls, idx, output_count,
          stdout, stderr, exit>>

----------------------------------------------------------------------------
(* Text                                                                    *)

Digits == <<"0", "1", "2", "3", "4", "5", "6", "7", "8", "9">>

IsDigit(c) == \E d \in 1..10 : Digits[d] = c

DigitVal(c) == (CHOOSE d \in 1..10 : Digits[d] = c) - 1

IsSpace(c) == c \in {" ", "\n"}

RECURSIVE LStrip(_)
LStrip(s) == IF s # <<>> /\ IsSpace(Head(s)) THEN LStrip(Tail(s)) ELSE s

RECURSIVE RStrip(_)
RStrip(s) ==
    IF s # <<>> /\ IsSpace(s[Len(s)]) THEN RStrip(SubSeq(s, 1, Len(s) - 1)) ELSE s

\* str.strip()
Strip(s) == RStrip(LStrip(s))

\* Python's "needle in hay" on text
Contains(needle, hay) ==
    \E i \in 0..(Len(hay) - Len(needle)) : SubSeq(hay, i + 1, i + Len(needle)) = needle

\* int() of a run of decimal digits
RECURSIVE DigitsToInt(_)
DigitsToInt(s) ==
    IF s = <<>> THEN 0 ELSE 10 * DigitsToInt(SubSeq(s, 1, Len(s) - 1)) + DigitVal(s[Len(s)])

AllDigits(s) == s # <<>> /\ \A i \in 1..Len(s) : IsDigit(s[i])

\* str() of an int
RECURSIVE NatToStr(_)
NatToStr(n) == IF n < 10 THEN <<Digits[n + 1]>> ELSE NatToStr(n \div 10) \o <<Digits[(n % 10) + 1]>>

IntToStr(n) == IF n < 0 THEN <<"-">> \o NatToStr(-n) ELSE NatToStr(n)

RECURSIVE Flatten(_)
Flatten(ss) == IF ss = <<>> THEN <<>> ELSE Head(ss) \o Flatten(Tail(ss))

----------------------------------------------------------------------------
(* JSON values and records.  A value is null, a string or an int; a record *)
(* (a Python dict) is a sequence of <<key, value>> pairs with distinct     *)
(* keys, in insertion order.                                               *)

Null == [t |-> "null", s |-> <<>>, n |-> 0]
StrV(s) == [t |-> "str", s |-> s, n |-> 0]
IntV(n) == [t |-> "int", s |-> <<>>, n |-> n]

\* str(value)
PyStr(v) == IF v.t = "int" THEN IntToStr(v.n) ELSE v.s

HasKey(record, key) == \E i \in 1..Len(record) : record[i][1] = key

Lookup(record, key) == record[CHOOSE i \in 1..Len(record) : record[i][1] = key][2]

\* get_value with a slip: a key whose value is None is passed over
RECURSIVE get_value_skipping_none(_, _)
get_value_skipping_none(record, keys) ==
    IF keys = <<>> THEN {}
    ELSE IF HasKey(record, Head(keys)) /\ Lookup(record, Head(keys)) # Null
         THEN {PyStr(Lookup(record, Head(keys)))}
         ELSE get_value_skipping_none(record, Tail(keys))

\* get_value, lines 52-57: the first key of keys that the record holds decides
RECURSIVE get_value(_, _)
get_value(record, keys) ==
    IF keys = <<>> THEN {}
    ELSE IF HasKey(record, Head(keys))
         THEN IF Lookup(record, Head(keys)) # Null
              THEN {PyStr(Lookup(record, Head(keys)))}
              ELSE {}
         ELSE get_value(record, Tail(keys))

\* json.dumps(..., ensure_ascii=True) of a string's characters
EscapeChar(c) ==
    IF c = "é" THEN <<"\\", "u", "0", "0", "e", "9">>
    ELSE IF c = "\"" THEN <<"\\", "\"">>
    ELSE <<c>>

Quote(s) == <<"\"">> \o Flatten([i \in 1..Len(s) |-> EscapeChar(s[i])]) \o <<"\"">>

DumpValue(v) ==
    IF v.t = "null" THEN <<"n", "u", "l", "l">>
    ELSE IF v.t = "int" THEN IntToStr(v.n)
    ELSE Quote(v.s)

\* json.dumps(record, ensure_ascii=True): {"k": v, "k2": v2}
Dumps(record) ==
    <<"{">>
    \o Flatten([i \in 1..Len(record) |->
           (IF i > 1 THEN <<",", " ">> ELSE <<>>)
           \o Quote(record[i][1]) \o <<":", " ">> \o DumpValue(record[i][2])])
    \o <<"}">>

----------------------------------------------------------------------------
(* Response bodies: sequences of tokens                                    *)

Tok(kind) == [k |-> kind, o |-> <<>>]
LB == Tok("lb")
RB == Tok("rb")
COMMA == Tok("comma")
NL == Tok("nl")
SP == Tok("sp")
NUM == Tok("num")
TEXT == Tok("text")
Obj(record) == [k |-> "obj", o |-> record]

TokIsSpace(tok) == tok.k \in {"nl", "sp"}

RECURSIVE TokLStrip(_)
TokLStrip(toks) ==
    IF toks # <<>> /\ TokIsSpace(Head(toks)) THEN TokLStrip(Tail(toks)) ELSE toks

RECURSIVE TokRStrip(_)
TokRStrip(toks) ==
    IF toks # <<>> /\ TokIsSpace(toks[Len(toks)])
    THEN TokRStrip(SubSeq(toks, 1, Len(toks) - 1))
    ELSE toks

\* payload.strip(), line.strip()
TokStrip(toks) == TokRStrip(TokLStrip(toks))

\* the JSON decoder's white space skipping
RECURSIVE SkipWs(_, _)
SkipWs(toks, i) == IF i <= Len(toks) /\ TokIsSpace(toks[i]) THEN SkipWs(toks, i + 1) ELSE i

Failed == [ok |-> FALSE, kind |-> "none", o |-> <<>>, dicts |-> <<>>, j |-> 0]

\* The JSON decoder on the tokens from position i: whether a value starts
\* there, its kind (dict, list, scalar), the mapping of a dict, the dict
\* elements of a list in order, and the position after the value.
RECURSIVE ParseValue(_, _)
RECURSIVE ParseElems(_, _, _)
ParseValue(toks, i) ==
    LET p == SkipWs(toks, i) IN
    IF p > Len(toks) THEN Failed
    ELSE IF toks[p].k = "obj"
         THEN [ok |-> TRUE, kind |-> "dict", o |-> toks[p].o, dicts |-> <<>>, j |-> p + 1]
    ELSE IF toks[p].k = "num"
         THEN [ok |-> TRUE, kind |-> "scalar", o |-> <<>>, dicts |-> <<>>, j |-> p + 1]
    ELSE IF toks[p].k = "lb"
         THEN LET q == SkipWs(toks, p + 1) IN
              IF q <= Len(toks) /\ toks[q].k = "rb"
              THEN [ok |-> TRUE, kind |-> "list", o |-> <<>>, dicts |-> <<>>, j |-> q + 1]
              ELSE ParseElems(toks, p + 1, <<>>)
    ELSE Failed

\* the elements of an array after "[" or ",", up to the closing "]"
ParseElems(toks, i, acc) ==
    LET v == ParseValue(toks, i) IN
    IF ~v.ok THEN Failed
    ELSE LET acc2 == IF v.kind = "dict" THEN Append(acc, v.o) ELSE acc
             q == SkipWs(toks, v.j)
         IN  IF q > Len(toks) THEN Failed
             ELSE IF toks[q].k = "comma" THEN ParseElems(toks, q + 1, acc2)
             ELSE IF toks[q].k = "rb"
                  THEN [ok |-> TRUE, kind |-> "list", o |-> <<>>, dicts |-> acc2, j |-> q + 1]
             ELSE Failed

\* json.loads: one value and nothing but white space after it;
\* JSONDecodeError is ok = FALSE
json_loads(toks) ==
    LET v == ParseValue(toks, 1) IN
    IF v.ok /\ SkipWs(toks, v.j) > Len(toks) THEN v ELSE Failed

\* str.splitlines()
RECURSIVE SplitLines(_, _)
SplitLines(toks, cur) ==
    IF toks = <<>> THEN (IF cur = <<>> THEN <<>> ELSE <<cur>>)
    ELSE IF Head(toks).k = "nl" THEN <<cur>> \o SplitLines(Tail(toks), <<>>)
    ELSE SplitLines(Tail(toks), Append(cur, Head(toks)))

\* parse_records, lines 71-82: the loop over the lines
RECURSIVE ParseLines(_)
ParseLines(lines) ==
    IF lines = <<>> THEN <<>>
    ELSE LET line == TokStrip(Head(lines))
             parsed == json_loads(line)
         IN  IF line = <<>> THEN ParseLines(Tail(lines))
             ELSE IF ~parsed.ok THEN ParseLines(Tail(lines))
             ELSE IF parsed.kind = "dict" THEN <<parsed.o>> \o ParseLines(Tail(lines))
             ELSE ParseLines(Tail(lines))

\* parse_records, lines 60-82
parse_records(body) ==
    IF TokStrip(body) = <<>> THEN <<>>
    ELSE LET data == json_loads(body) IN
         IF data.ok /\ data.kind = "list" THEN data.dicts
         ELSE IF data.ok /\ data.kind = "dict" THEN <<data.o>>
         ELSE ParseLines(SplitLines(body, <<>>))

----------------------------------------------------------------------------
(* Time.  An instant is a number of ticks since the epoch, TicksPerSecond  *)
(* ticks to the second (datetime keeps microseconds); a duration is a      *)
(* number of ticks.                                                        *)

TicksPerSecond == 2

\* A --from/--to argument: the wall-clock reading it writes (in ticks) and
\* its suffix: "Z", an explicit offset (off, in seconds), none ("naive"),
\* or text that datetime.fromisoformat rejects ("bad"); "empty" is "".
Stamp(local, suffix, off) == [local |-> local, suffix |-> suffix, off |-> off]

\* parse_duration with a slip: minutes taken as seconds
parse_duration_minutes_as_seconds(value) ==
    LET v == Strip(value)
        amount == DigitsToInt(SubSeq(v, 1, Len(v) - 1))
        unit == v[Len(v)]
    IN  IF ~(Len(v) >= 2 /\ AllDigits(SubSeq(v, 1, Len(v) - 1)) /\ unit \in {"s", "m", "h", "d"})
        THEN [ok |-> FALSE, ticks |-> 0]
        ELSE IF unit \in {"s", "m"} THEN [ok |-> TRUE, ticks |-> amount * TicksPerSecond]
        ELSE IF unit = "h" THEN [ok |-> TRUE, ticks |-> amount * 3600 * TicksPerSecond]
        ELSE [ok |-> TRUE, ticks |-> amount * 86400 * TicksPerSecond]

\* parse_duration, lines 14-26: ok = FALSE is the ValueError
parse_duration(value) ==
    LET v == Strip(value)
        amount == DigitsToInt(SubSeq(v, 1, Len(v) - 1))
        unit == v[Len(v)]
    IN  IF ~(Len(v) >= 2 /\ AllDigits(SubSeq(v, 1, Len(v) - 1)) /\ unit \in {"s", "m", "h", "d"})
        THEN [ok |-> FALSE, ticks |-> 0]
        ELSE IF unit = "s" THEN [ok |-> TRUE, ticks |-> amount * TicksPerSecond]
        ELSE IF unit = "m" THEN [ok |-> TRUE, ticks |-> amount * 60 * TicksPerSecond]
        ELSE IF unit = "h" THEN [ok |-> TRUE, ticks |-> amount * 3600 * TicksPerSecond]
        ELSE [ok |-> TRUE, ticks |-> amount * 86400 * TicksPerSecond]

\* parse_iso, lines 29-36: ok = FALSE is the ValueError of fromisoformat
parse_iso(value) ==
    IF value.suffix \in {"bad", "empty"} THEN [ok |-> FALSE, t |-> 0]
    ELSE IF value.suffix = "Z" THEN [ok |-> TRUE, t |-> value.local]
    ELSE IF value.suffix = "naive" THEN [ok |-> TRUE, t |-> value.local]
    ELSE [ok |-> TRUE, t |-> value.local - value.off * TicksPerSecond]

\* format_time, lines 39-42: int() truncates towards zero, strftime drops
\* the fraction of the second
format_time(value, mode) ==
    IF mode = "unix"
    THEN [fmt |-> "unix",
          secs |-> IF value >= 0 THEN value \div TicksPerSecond
                   ELSE -((-value) \div TicksPerSecond)]
    ELSE [fmt |-> "rfc3339", secs |-> value \div TicksPerSecond]

----------------------------------------------------------------------------
(* main, lines 85-220                                                      *)

\* truthiness of an Optional[str]
Truthy(opt) == \E x \in opt : x # <<>>

\* int(), as argparse applies it to --limit
IsIntLiteral(s) ==
    \/ AllDigits(s)
    \/ Len(s) >= 2 /\ s[1] = "-" /\ AllDigits(Tail(s))

ToInt(s) == IF s[1] = "-" THEN -DigitsToInt(Tail(s)) ELSE DigitsToInt(s)

\* the alias lists of lines 192, 196-198, 202, 206-208
RayKeys == <<<<"R", "a", "y", "I", "D">>, <<"R", "a", "y", "I", "d">>, <<"r", "a", "y", "_", "i", "d">>>>

WorkerKeys == <<<<"S", "c", "r", "i", "p", "t", "N", "a", "m", "e">>, <<"W", "o", "r", "k", "e", "r", "N", "a", "m", "e">>, <<"w", "o", "r", "k", "e", "r">>, <<"s", "c", "r", "i", "p", "t", "_", "n", "a", "m", "e">>>>

StatusKeys == <<<<"S", "t", "a", "t", "u", "s">>, <<"E", "d", "g", "e", "S", "t", "a", "t", "u", "s">>, <<"s", "t", "a", "t", "u", "s">>, <<"O", "u", "t", "c", "o", "m", "e">>>>

PathKeys == <<<<"P", "a", "t", "h">>, <<"R", "e", "q", "u", "e", "s", "t", "P", "a", "t", "h">>, <<"R", "e", "q", "u", "e", "s", "t", "U", "R", "L">>, <<"U", "R", "L">>, <<"u", "r", "i">>>>

\* lines 191-194 (and 195-210): one field filter; TRUE when the loop goes on
\* to the next filter, FALSE when it continues with the next record
FieldFilter(record, flt, keys) ==
    IF Truthy(flt)
    THEN LET value == get_value(record, keys) IN
         ~(~Truthy(value) \/ \E f \in flt : ~Contains(f, CHOOSE v \in value : TRUE))
    ELSE TRUE

\* lines 211-213
ContainsFilter(record, flt) ==
    IF Truthy(flt) THEN \A f \in flt : Contains(f, Dumps(record)) ELSE TRUE

\* the filters with a slip: a record is kept when any configured filter
\* passes
KeepAny(record, a) ==
    \/ ~(Truthy(a.ray) \/ Truthy(a.worker) \/ Truthy(a.status) \/ Truthy(a.path)
         \/ Truthy(a.contains))
    \/ Truthy(a.ray) /\ FieldFilter(record, a.ray, RayKeys)
    \/ Truthy(a.worker) /\ FieldFilter(record, a.worker, WorkerKeys)
    \/ Truthy(a.status) /\ FieldFilter(record, a.status, StatusKeys)
    \/ Truthy(a.path) /\ FieldFilter(record, a.path, PathKeys)
    \/ Truthy(a.contains) /\ ContainsFilter(record, a.contains)

\* lines 191-213: whether the record reaches the print of line 215
Keep(record, a) ==
    /\ FieldFilter(record, a.ray, RayKeys)
    /\ FieldFilter(record, a.worker, WorkerKeys)
    /\ FieldFilter(record, a.status, StatusKeys)
    /\ FieldFilter(record, a.path, PathKeys)
    /\ ContainsFilter(record, a.contains)

\* line 217
LimitHit(a, count) == \E L \in a.limit : L # 0 /\ count >= L

\* what one print call writes to standard output: the response body (or a
\* part of it), or a line of JSON text
Blob(toks) == [kind |-> "body", body |-> toks, text |-> <<>>]
Line(text) == [kind |-> "json", body |-> <<>>, text |-> text]

NoArgs ==
    [since |-> {}, start |-> {}, end |-> {}, ray |-> {}, worker |-> {}, status |-> {},
     path |-> {}, contains |-> {}, limit |-> {}, raw |-> FALSE]

NoParams == [start |-> [fmt |-> "none", secs |-> 0], end |-> [fmt |-> "none", secs |-> 0]]

\* the state before main runs, for a command line, an environment and a
\* server that holds the response it will give
Start(a, e, srv) ==
    /\ argv = a
    /\ env = e
    /\ server = srv
    /\ pc = "parse_args"
    /\ args = NoArgs
    /\ start_time = 0
    /\ end_time = 0
    /\ params = NoParams
    /\ requests = 0
    /\ payload = <<>>
    /\ records = <<>>
    /\ parseCalls = 0
    /\ idx = 0
    /\ output_count = 0
    /\ stdout = <<>>
    /\ stderr = <<>>
    /\ exit = -1

\* return with an exit status and a message on the error stream
Fail(msg, status) ==
    /\ stderr' = Append(stderr, msg)
    /\ exit' = status
    /\ pc' = "done"

\* lines 86-103: argparse; a --limit that int() rejects ends the run with
\* status 2
ParseArgs ==
    /\ pc = "parse_args"
    /\ IF \E s \in argv.limit : ~IsIntLiteral(s)
       THEN /\ Fail("argparse: invalid int value", 2)
            /\ UNCHANGED args
       ELSE /\ args' = [argv EXCEPT !.limit = {ToInt(s) : s \in argv.limit}]
            /\ pc' = "credentials"
            /\ UNCHANGED <<stderr, exit>>
    /\ UNCHANGED <<argv, env, server, start_time, end_time, params, requests, payload,
                   records, parseCalls, idx, output_count, stdout>>

\* lines 105-109
CheckCredentials ==
    /\ pc = "credentials"
    /\ IF ~Truthy(env.account_id) \/ ~Truthy(env.token)
       THEN Fail("Missing CLOUDFLARE_ACCOUNT_ID or CLOUDFLARE_API_TOKEN", 1)
       ELSE /\ pc' = "window"
            /\ UNCHANGED <<stderr, exit>>
    /\ UNCHANGED <<argv, env, server, args, start_time, end_time, params, requests,
                   payload, records, parseCalls, idx, output_count, stdout>>

\* lines 112-131
ResolveWindow ==
    /\ pc = "window"
    /\ IF Truthy(args.since)
       THEN LET d == parse_duration(CHOOSE s \in args.since : TRUE) IN
            IF d.ok
            THEN /\ end_time' = env.now
                 /\ start_time' = env.now - d.ticks
                 /\ pc' = "request"
                 /\ UNCHANGED <<stderr, exit>>
            ELSE /\ Fail("Duration must be like 15m, 2h, 1d", 1)
                 /\ UNCHANGED <<start_time, end_time>>
       ELSE IF \/ \A x \in args.start : x.suffix = "empty"
               \/ \A x \in args.end : x.suffix = "empty"
            THEN /\ Fail("Provide --since or both --from/--to", 1)
                 /\ UNCHANGED <<start_time, end_time>>
            ELSE LET s == parse_iso(CHOOSE x \in args.start : TRUE)
                     e == parse_iso(CHOOSE x \in args.end : TRUE)
                 IN  IF s.ok /\ e.ok
                     THEN /\ start_time' = s.t
                          /\ end_time' = e.t
                          /\ pc' = "request"
                          /\ UNCHANGED <<stderr, exit>>
                     ELSE /\ Fail("Invalid time format; use RFC3339", 1)
                          /\ UNCHANGED <<start_time, end_time>>
    /\ UNCHANGED <<argv, env, server, args, params, requests, payload, records,
                   parseCalls, idx, output_count, stdout>>

\* line 111
TimeFormat == IF env.time_format \in {{}, {""}} THEN "rfc3339" ELSE CHOOSE m \in env.time_format : TRUE

\* lines 133-164: the start and end query parameters (the endpoint, the
\* dataset, fields and sample parameters and the headers do not depend on
\* the window or on the response and are left out)
BuildRequest ==
    /\ pc = "request"
    /\ params' = [start |-> format_time(start_time, TimeFormat),
                  end |-> format_time(end_time, TimeFormat)]
    /\ pc' = "fetch"
    /\ UNCHANGED <<argv, env, server, args, start_time, end_time, requests, payload,
                   records, parseCalls, idx, output_count, stdout, stderr, exit>>

\* lines 166-178: the one GET
Fetch ==
    /\ pc = "fetch"
    /\ requests' = requests + 1
    /\ IF server.outcome = "ok"
       THEN /\ payload' = server.body
            /\ pc' = "output"
            /\ UNCHANGED <<stderr, exit>>
       ELSE IF server.outcome = "http_error"
            THEN /\ stderr' = stderr \o <<"Logpull error: code reason", "error body">>
                 /\ exit' = 1
                 /\ pc' = "done"
                 /\ UNCHANGED payload
            ELSE /\ Fail("Logpull request failed: reason", 1)
                 /\ UNCHANGED payload
    /\ UNCHANGED <<argv, env, server, args, start_time, end_time, params, records,
                   parseCalls, idx, output_count, stdout>>

\* lines 180-182 with a slip: the body is trimmed as in line 186
PrintRawTrimmed ==
    /\ pc = "output"
    /\ args.raw
    /\ stdout' = Append(stdout, Blob(TokStrip(payload)))
    /\ exit' = 0
    /\ pc' = "done"
    /\ UNCHANGED <<argv, env, server, args, start_time, end_time, params, requests,
                   payload, records, parseCalls, idx, output_count, stderr>>

\* lines 180-182
PrintRaw ==
    /\ pc = "output"
    /\ args.raw
    /\ stdout' = Append(stdout, Blob(payload))
    /\ exit' = 0
    /\ pc' = "done"
    /\ UNCHANGED <<argv, env, server, args, start_time, end_time, params, requests,
                   payload, records, parseCalls, idx, output_count, stderr>>

\* lines 184-189
ParsePayload ==
    /\ pc = "output"
    /\ ~args.raw
    /\ records' = parse_records(payload)
    /\ parseCalls' = parseCalls + 1
    /\ IF records' = <<>>
       THEN /\ stdout' = Append(stdout, Blob(TokStrip(payload)))
            /\ exit' = 0
            /\ pc' = "done"
       ELSE /\ pc' = "emit"
            /\ UNCHANGED <<stdout, exit>>
    /\ UNCHANGED <<argv, env, server, args, start_time, end_time, params, requests,
                   payload, idx, output_count, stderr>>

\* lines 190-218: one turn of the loop, on the record after the idx
\* records already taken; the loop ends by the break of line 218 or after
\* the last record
EmitRecord ==
    /\ pc = "emit"
    /\ idx < Len(records)
    /\ idx' = idx + 1
    /\ IF Keep(records[idx + 1], args)
       THEN /\ stdout' = Append(stdout, Line(Dumps(records[idx + 1])))
            /\ output_count' = output_count + 1
            /\ pc' = IF LimitHit(args, output_count + 1) \/ idx + 1 = Len(records)
                     THEN "return" ELSE "emit"
       ELSE /\ pc' = IF idx + 1 = Len(records) THEN "return" ELSE "emit"
            /\ UNCHANGED <<stdout, output_count>>
    /\ UNCHANGED <<argv, env, server, args, start_time, end_time, params, requests,
                   payload, records, parseCalls, stderr, exit>>

\* line 220 with a slip: the raw text is shown when nothing was printed
ReturnWithRawFallback ==
    /\ pc = "return"
    /\ stdout' = IF output_count = 0 THEN Append(stdout, Blob(TokStrip(payload))) ELSE stdout
    /\ exit' = 0
    /\ pc' = "done"
    /\ UNCHANGED <<argv, env, server, args, start_time, end_time, params, requests,
                   payload, records, parseCalls, idx, output_count, stderr>>

\* line 220
Return ==
    /\ pc = "return"
    /\ exit' = 0
    /\ pc' = "done"
    /\ UNCHANGED <<argv, env, server, args, start_time, end_time, params, requests,
                   payload, records, parseCalls, idx, output_count, stdout, stderr>>

Next ==
    \/ ParseArgs
    \/ CheckCredentials
    \/ ResolveWindow
    \/ BuildRequest
    \/ Fetch
    \/ PrintRaw
    \/ ParsePayload
    \/ EmitRecord
    \/ Return

----------------------------------------------------------------------------
(* Inputs.  Every specification below runs the same program, Next, on its  *)
(* own bounded family of command lines, environments and responses.        *)

SeqsUpTo(S, n) == UNION {[1..m -> S] : m \in 0..n}

GoodEnv == [account_id |-> {<<"a", "c">>}, token |-> {<<"t">>}, time_format |-> {}, now |-> 7]

Since1s == {<<"1", "s">>}

OkServer(body) == [outcome |-> "ok", body |-> body]

\* the bodies a server writes for a sequence of records: a JSON array, an
\* array with a scalar element before the records, one record a line, and
\* one record a line after a line of text
ArrayBody(rs) ==
    <<LB>>
    \o Flatten([i \in 1..Len(rs) |-> (IF i > 1 THEN <<COMMA, SP>> ELSE <<>>) \o <<Obj(rs[i])>>])
    \o <<RB>>

MixedArrayBody(rs) == <<LB, NUM>> \o Flatten([i \in 1..Len(rs) |-> <<COMMA, Obj(rs[i])>>]) \o <<RB>>

NdjsonBody(rs) == Flatten([i \in 1..Len(rs) |-> <<Obj(rs[i]), NL>>])

MixedNdjsonBody(rs) == <<TEXT, NL>> \o Flatten([i \in 1..Len(rs) |-> <<NL, SP, Obj(rs[i])>>])

\* bodies with no record in them: empty, white space, text, a bare scalar
PlainBodies == {<<>>, <<NL, SP>>, <<TEXT>>, <<SP, TEXT, SP, TEXT, NL>>, <<NUM>>}

(* SpecEmit: the filter-and-emit loop on up to MaxRecords records          *)

MaxRecords == 3

Rec1 == <<<<<<"R", "a", "y", "I", "D">>, StrV(<<"a", "b">>)>>, <<<<"S", "t", "a", "t", "u", "s">>, IntV(12)>>>>

Rec2 == <<<<<<"r", "a", "y", "_", "i", "d">>, StrV(<<"a", "b">>)>>>>

Rec3 == <<<<<<"r", "a", "y", "_", "i", "d">>, StrV(<<"a", "b">>)>>, <<<<"R", "a", "y", "I", "D">>, StrV(<<"A", "é">>)>>>>

EmitRecords == {Rec1, Rec2, Rec3}

EmitBodies ==
    PlainBodies
    \cup UNION {{ArrayBody(rs), NdjsonBody(rs), MixedArrayBody(rs), MixedNdjsonBody(rs)} :
                    rs \in SeqsUpTo(EmitRecords, MaxRecords)}

EmitLimits == {{}, {<<"0">>}, {<<"1">>}, {<<"2">>}, {<<"-", "1">>}, {<<"x">>}}

InitEmit ==
    \E body \in EmitBodies, ray \in {{}, {<<>>}, {<<"b">>}}, status \in {{}, {<<"1">>}},
       contains \in {{}, {<<"b">>}}, limit \in EmitLimits, raw \in BOOLEAN :
        Start([NoArgs EXCEPT !.since = Since1s, !.ray = ray, !.status = status,
                             !.contains = contains, !.limit = limit, !.raw = raw],
              GoodEnv, OkServer(body))

SpecEmit == InitEmit /\ [][Next]_vars

(* SpecFilter: one field filter on one record that holds up to MaxKeys of  *)
(* that field's or another field's alias keys                              *)

MaxKeys == 2

FilterValues == {Null, StrV(<<>>), StrV(<<"a", "b">>), IntV(12)}

FilterStrings == {<<"b">>, <<"B">>, <<"1">>}

RECURSIVE Ascending(_)
Ascending(S) ==
    IF S = {} THEN <<>>
    ELSE LET m == CHOOSE x \in S : \A y \in S : x <= y IN <<m>> \o Ascending(S \ {m})

Reverse(q) == [i \in 1..Len(q) |-> q[Len(q) + 1 - i]]

\* the records over the keys numbered S of an alias list, in the list's
\* order and in the reverse order
RecordsOver(keys, S) ==
    UNION {{[i \in 1..Cardinality(S) |-> <<keys[Ascending(S)[i]], val[Ascending(S)[i]]>>],
            [i \in 1..Cardinality(S) |-> <<keys[Reverse(Ascending(S))[i]],
                                           val[Reverse(Ascending(S))[i]]>>]} :
               val \in [S -> FilterValues]}

AliasRecords(keys) ==
    UNION {RecordsOver(keys, S) :
               S \in {T \in SUBSET (1..Len(keys)) : Cardinality(T) \in 1..MaxKeys}}

FilterRecords ==
    {<<>>} \cup AliasRecords(RayKeys) \cup AliasRecords(WorkerKeys)
           \cup AliasRecords(StatusKeys) \cup AliasRecords(PathKeys)

InitFilter ==
    \/ \E record \in FilterRecords, field \in {"ray", "worker", "status", "path"},
          f \in FilterStrings :
           Start([NoArgs EXCEPT !.since = Since1s, ![field] = {f}], GoodEnv,
                 OkServer(<<Obj(record)>>))
    \/ \E record \in AliasRecords(RayKeys) :
           Start([NoArgs EXCEPT !.since = Since1s, !.ray = {<<"b">>}, !.raw = TRUE], GoodEnv,
                 OkServer(<<Obj(record)>>))

SpecFilter == InitFilter /\ [][Next]_vars

(* SpecParse: bodies of up to MaxLines lines of up to MaxLineLen tokens    *)

MaxLines == 3

MaxLineLen == 2

ObjA == Obj(Rec1)

ObjB == Obj(Rec2)

ParseLinesOf == SeqsUpTo({LB, RB, COMMA, ObjA, ObjB}, MaxLineLen) \cup {<<NUM>>, <<SP>>, <<TEXT>>}

\* the lines of a body, each but the last ended by a newline
Join(lines) ==
    Flatten([i \in 1..Len(lines) |-> (IF i > 1 THEN <<NL>> ELSE <<>>) \o lines[i]])

InitParse ==
    \/ \E lines \in SeqsUpTo(ParseLinesOf, MaxLines) :
           Start([NoArgs EXCEPT !.since = Since1s], GoodEnv, OkServer(Join(lines)))
    \/ \E lines \in SeqsUpTo(ParseLinesOf, 1) :
           Start([NoArgs EXCEPT !.since = Since1s, !.raw = TRUE], GoodEnv,
                 OkServer(Join(lines)))

SpecParse == InitParse /\ [][Next]_vars

(* SpecArgs: the time arguments, the credentials and the transport         *)

MaxAmount == 2

Duration(n, unit) == IntToStr(n) \o <<unit>>

SinceArgs ==
    {{}, {<<>>}, {<<"h">>}, {<<"1", "x">>}, {<<"-", "1", "s">>}, {<<" ", "1", "5", "m", "\n">>}}
    \cup {{Duration(n, unit)} : n \in 0..MaxAmount, unit \in {"s", "m", "h", "d"}}

\* 1969-12-31T23:59:58.5Z, 00:33:20 and 01:00:00+01:00 and 00:40:00-01:00
\* of 1970-01-01, an empty argument and one that is no timestamp
StampArgs ==
    {{}, {Stamp(0, "empty", 0)}, {Stamp(0, "bad", 0)}, {Stamp(-3, "Z", 0)},
     {Stamp(2000 * TicksPerSecond, "naive", 0)}, {Stamp(3600 * TicksPerSecond, "offset", 3600)},
     {Stamp(2400 * TicksPerSecond, "offset", -3600)}}

ArgsEnvs ==
    {[account_id |-> acct, token |-> token, time_format |-> fmt, now |-> now] :
        acct \in {{<<"a", "c">>}}, token \in {{<<"t">>}},
        fmt \in {{}, {"unix"}}, now \in {3 * 86400 * TicksPerSecond + 1}}
    \cup {[GoodEnv EXCEPT !.account_id = {}], [GoodEnv EXCEPT !.token = {<<>>}],
          [GoodEnv EXCEPT !.time_format = {""}], [GoodEnv EXCEPT !.time_format = {"rfc3339"}]}

ArgsServers ==
    {OkServer(ArrayBody(<<Rec1>>)), [outcome |-> "http_error", body |-> <<TEXT>>],
     [outcome |-> "url_error", body |-> <<>>]}

InitArgs ==
    \E since \in SinceArgs, start \in StampArgs, end \in StampArgs, e \in ArgsEnvs,
       srv \in ArgsServers, raw \in BOOLEAN :
        Start([NoArgs EXCEPT !.since = since, !.start = start, !.end = end, !.raw = raw],
              e, srv)

SpecArgs == InitArgs /\ [][Next]_vars

----------------------------------------------------------------------------
(* The statements checked, in their own terms                              *)

Done == pc = "done"

\* the GET was issued and answered with a body
Fetched == requests = 1 /\ server.outcome = "ok" /\ pc \in {"output", "emit", "return", "done"}

\* the emit loop has been entered: not raw, and the parser gave a record
InLoop == Fetched /\ ~argv.raw /\ parseCalls = 1 /\ records # <<>>

\* the alias keys of a field that the record holds and no earlier alias does
FirstPresent(record, keys) ==
    {i \in 1..Len(keys) : HasKey(record, keys[i]) /\ \A j \in 1..(i - 1) : ~HasKey(record, keys[j])}

\* a non-empty filter string f on a field with alias list keys
PassesField(record, f, keys) ==
    \E i \in FirstPresent(record, keys) :
        /\ Lookup(record, keys[i]) # Null
        /\ Lookup(record, keys[i]) # StrV(<<>>)
        /\ Contains(f, PyStr(Lookup(record, keys[i])))

KeysOf(field) ==
    CASE field = "ray" -> RayKeys
      [] field = "worker" -> WorkerKeys
      [] field = "status" -> StatusKeys
      [] field = "path" -> PathKeys

Fields == {"ray", "worker", "status", "path"}

\* every configured filter passes; an unconfigured or empty one passes all
PassesAll(record, a) ==
    /\ \A field \in Fields : \A f \in a[field] : f # <<>> => PassesField(record, f, KeysOf(field))
    /\ \A f \in a.contains : f # <<>> => Contains(f, Dumps(record))

\* the records among the first n that pass every configured filter
Passing(n) == {i \in 1..n : PassesAll(records[i], args)}

Min(a, b) == IF a <= b THEN a ELSE b

\* C1: a duration together with --from or --to, or neither a duration nor
\* both of --from and --to, ends the run with status 1 and without a
\* request; a request is issued only when exactly one of {duration} and
\* {start and end} is supplied.
C1_TimeArgumentsExclusive ==
    LET dur == argv.since # {}
        st == argv.start # {}
        en == argv.end # {}
    IN  /\ ((dur /\ (st \/ en)) \/ (~dur /\ ~(st /\ en))) => requests = 0 /\ (Done => exit = 1)
        /\ requests > 0 => ((dur /\ ~st /\ ~en) \/ (~dur /\ st /\ en))

\* C2: with a limit L (a count, L >= 0) the loop prints exactly min(L, M)
\* records, M the number of records that pass every filter; it never has
\* printed more than L, and once it has printed L the record it stands on
\* is the last printed.
C2_LimitCapsOutput ==
    InLoop =>
        \A L \in args.limit :
            L >= 0 =>
            /\ Len(stdout) <= L
            /\ Len(stdout) = Min(L, Cardinality(Passing(idx)))
            /\ pc \in {"return", "done"} => Len(stdout) = Min(L, Cardinality(Passing(Len(records))))
            /\ Len(stdout) = L => idx = 0 \/ idx \in Passing(idx)

\* C3: when the loop has ended without the limit being reached, standard
\* output is the lines of the parsed records that pass every configured
\* filter, in the order of the response.
C3_OutputIsFilteredSequence ==
    (InLoop /\ Done /\ ~(\E L \in args.limit : Len(stdout) >= L)) =>
        LET Test(record) == PassesAll(record, args)
            kept == SelectSeq(records, Test)
        IN  stdout = [i \in 1..Len(kept) |-> Line(Dumps(kept[i]))]

C3_Witness ==
    /\ InLoop /\ Done
    /\ args.limit = {}
    /\ Truthy(args.ray) /\ Truthy(args.status)
    /\ Len(records) >= 3
    /\ Len(stdout) >= 1
    /\ Len(stdout) < Len(records)
    /\ PassesAll(records[Len(records)], args)

\* C4: with one field filter configured, a record is printed exactly when
\* the value of the first alias key it holds is neither null nor empty and
\* its text contains the filter string; a record with no alias key is not.
C4_FirstAliasDecides ==
    (InLoop /\ Done /\ args.limit = {} /\ ~Truthy(args.contains)) =>
        \A field \in Fields :
            (Truthy(args[field]) /\ \A other \in Fields \ {field} : ~Truthy(args[other])) =>
                \A f \in args[field] : \A i \in 1..Len(records) :
                    (\E n \in 1..Len(stdout) : stdout[n] = Line(Dumps(records[i])))
                        <=> PassesField(records[i], f, KeysOf(field))

\* the first alias is there with null, a later alias would match: rejected
C4_Witness ==
    /\ InLoop /\ Done
    /\ args.ray = {<<"b">>}
    /\ Len(records) = 1
    /\ HasKey(records[1], RayKeys[1]) /\ Lookup(records[1], RayKeys[1]) = Null
    /\ HasKey(records[1], RayKeys[3]) /\ Lookup(records[1], RayKeys[3]) = StrV(<<"a", "b">>)
    /\ stdout = <<>>
    /\ exit = 0

\* the chain of the specification: the whole body as one JSON document, and
\* when that gives nothing, the lines
WholeBody(body) ==
    LET data == json_loads(body) IN
    IF data.ok /\ data.kind = "list" THEN data.dicts
    ELSE IF data.ok /\ data.kind = "dict" THEN <<data.o>>
    ELSE <<>>

\* C5: parse_records gives nothing for a blank body, the mappings of the
\* whole-body parse when there are any, and otherwise the mappings of the
\* lines that parse to one, in line order.
C5_FallbackChain ==
    parseCalls = 1 =>
        records = IF TokStrip(payload) = <<>> THEN <<>>
                  ELSE IF WholeBody(payload) # <<>> THEN WholeBody(payload)
                  ELSE ParseLines(SplitLines(payload, <<>>))

\* C6: after a fetch without --raw, no parsed record means the trimmed body
\* on standard output; parsed records that all fail the filters mean
\* nothing on standard output; the status is 0 in both cases.
C6_ZeroResultCases ==
    (Fetched /\ Done /\ ~argv.raw) =>
        /\ records = <<>> => stdout = <<Blob(TokStrip(server.body))>> /\ exit = 0
        /\ (records # <<>> /\ Passing(Len(records)) = {}) => stdout = <<>> /\ exit = 0

C6_Witness ==
    /\ InLoop /\ Done
    /\ Len(records) >= 2
    /\ Passing(Len(records)) = {}
    /\ stdout = <<>>
    /\ exit = 0

\* C7: the status is 0 or 1; it is 1, with no request issued, for missing
\* credentials, missing or contradictory time arguments, a malformed
\* duration and a malformed timestamp; 1 for a failed GET; 0 for a GET that
\* succeeded; and there is at most one request.
C7_ExitStatus ==
    LET dur == argv.since # {}
        st == argv.start # {}
        en == argv.end # {}
        usage ==
            \/ ~Truthy(env.account_id) \/ ~Truthy(env.token)
            \/ (dur /\ (st \/ en)) \/ (~dur /\ ~(st /\ en))
            \/ \E s \in argv.since : ~parse_duration(s).ok
            \/ \E x \in argv.start \cup argv.end : ~parse_iso(x).ok
    IN  /\ requests <= 1
        /\ Done => exit \in {0, 1}
        /\ usage => requests = 0 /\ (Done => exit = 1)
        /\ (Done /\ requests = 1 /\ server.outcome # "ok") => exit = 1
        /\ (Done /\ requests = 1 /\ server.outcome = "ok") => exit = 0

\* C8: with --raw and a GET that succeeded, standard output is the body as
\* received and the status is 0; the parser and the loop are never entered.
C8_RawIsVerbatim ==
    argv.raw =>
        /\ parseCalls = 0 /\ records = <<>> /\ idx = 0 /\ output_count = 0
        /\ pc \notin {"emit", "return"}
        /\ (Fetched /\ Done) => stdout = <<Blob(server.body)>> /\ exit = 0

C8_Witness ==
    /\ Fetched /\ Done /\ argv.raw
    /\ Truthy(args.ray) /\ Truthy(args.contains) /\ args.limit = {1}
    /\ TokStrip(server.body) # server.body
    /\ Len(parse_records(server.body)) >= 2
    /\ stdout = <<Blob(server.body)>>

\* C9: a blank body without --raw: status 0 and nothing written to
\* standard output.
C9_BlankBodyNoOutput ==
    (Fetched /\ Done /\ ~argv.raw /\ TokStrip(server.body) = <<>>) => exit = 0 /\ stdout = <<>>

\* the run has reached the request builder
Resolved == pc \in {"request", "fetch", "output", "emit", "return"} \/ (Done /\ requests > 0)

UnitSeconds(unit) ==
    CASE unit = "s" -> 1
      [] unit = "m" -> 60
      [] unit = "h" -> 3600
      [] unit = "d" -> 86400

\* the instant a timestamp names
UtcInstant(x) == IF x.suffix = "offset" THEN x.local - x.off * TicksPerSecond ELSE x.local

\* C10 as stated: every window that reaches the request builder, and the
\* start and end parameters made of it, has start <= end.
C10_WindowNeverInverted ==
    Resolved =>
        /\ start_time <= end_time
        /\ pc # "request" => params.start.secs <= params.end.secs

\* C10 as amended: a window resolved from a duration ends now, is as long as
\* the duration and has start <= end, in the parameters too; a window
\* resolved from --from and --to is the two instants as given, so it is
\* ordered exactly when they are.
C10_DurationWindowOrdered ==
    Resolved =>
        IF Truthy(argv.since)
        THEN /\ end_time = env.now
             /\ start_time <= end_time
             /\ \E n \in 0..(MaxAmount + 15), unit \in {"s", "m", "h", "d"} :
                    /\ \A s \in argv.since : Strip(s) = Duration(n, unit)
                    /\ end_time - start_time = n * UnitSeconds(unit) * TicksPerSecond
             /\ pc # "request" => params.start.secs <= params.end.secs
        ELSE /\ \A x \in argv.start : start_time = UtcInstant(x)
             /\ \A x \in argv.end : end_time = UtcInstant(x)
             /\ argv.start # {} /\ argv.end # {}

C10_Witness ==
    /\ pc = "fetch"
    /\ argv.since = {Duration(MaxAmount, "h")}
    /\ argv.start # {}
    /\ start_time < end_time
    /\ params.start.secs < params.end.secs

====
